---- MODULE Spec2Model ----
(***************************************************************************)
(* A model of the holmes logging package (src/holmes.go): the process-wide *)
(* logger (Start, Stop, the ten logging functions) and the rotating file   *)
(* writer logSegment, together with the parts of the Go runtime they rest  *)
(* on: the file system, os.File handles, time.After timers, the standard   *)
(* logger of package log, os.Stderr and os.Exit.                           *)
(*                                                                         *)
(* Time is counted in ticks.  A minute is TicksPerMinute ticks and an hour *)
(* MinutesPerHour minutes: both are scaled down so that a run can cross    *)
(* several unit boundaries.                                                *)
(***************************************************************************)
EXTENDS Integers, Sequences, FiniteSets, TLC

\* ------------------------------------------------------------------ bounds
TicksPerMinute == 2
MinutesPerHour == 2
\* the ticks the clock runs on after the first hour
ExtraTicks == 1
\* successful Start calls in one run
MaxStarts == 3
\* Start calls that panic in one run
MaxPanics == 1
\* Stop calls on one handle
MaxStops == 2
\* calls of logging functions in one run
MaxCalls == 2
\* threads of the program
NThreads == 2
MaxOptions == 2

\* --------------------------------------------------------------- constants
DEBUG == 0
INFO == 1
WARN == 2
ERROR == 3
FATAL == 4

Levels == {DEBUG, INFO, WARN, ERROR, FATAL}

\* time.Minute and time.Hour, in ticks; 0 is the zero time.Duration
Minute == TicksPerMinute
Hour == MinutesPerHour * Minute

\* the clock stops advancing at MaxTime
MaxTime == Hour + ExtraTicks

Threads == 1..NThreads

\* a nil pointer (*log.Logger, *logSegment, *os.File)
Nil == 0
\* os.Stderr as the value of logSegment.logFile
StderrFile == -1
\* os.Stdout as the value of logSegment.logFile
StdoutFile == -2
\* no value buffered in a timer channel
NoTime == -1

\* --------------------------------------------------------------- variables
VARIABLES
  started,         \* var started int32
  loggerInstance,  \* var loggerInstance innerLogger
  loggers,         \* the *log.Logger objects made by log.New: [out]
  segments,        \* the *logSegment objects made by newLogSegment
  fds,             \* the *os.File objects: [name, open]
  files,           \* the file system: file name -> the lines of the file
  dirs,            \* the directories made by os.MkdirAll
  stderr,          \* what sinks and fmt.Fprintln wrote to os.Stderr
  console,         \* what the standard logger (log.Printf, log.Println) wrote
  now,             \* time.Now()
  exited,          \* os.Exit(1) was called
  pc,              \* each thread's position
  call,            \* each thread's current (or last) call and its locals
  handles,         \* the innerLogger values returned by Start, in order
  startOpts,       \* history: the options of each returned Start
  stopCount,       \* history: the number of Stop calls on each handle
  segLog,          \* history of each logSegment: birth, first file, writes,
                   \* rotations, files made, time of the last rotation
  nCalls,          \* history: the number of logging calls made
  panics           \* history: the number of Start calls that panicked

vars == <<started, loggerInstance, loggers, segments, fds, files, dirs, stderr,
          console, now, exited, pc, call, handles, startOpts, stopCount,
          segLog, nCalls, panics>>

\* ---------------------------------------------------------------- time

\* time.Time.Truncate: t rounded down to a multiple of d; t itself if d <= 0
Truncate(t, d) == IF d <= 0 THEN t ELSE t - (t % d)

\* a nil channel
NilChan == [nil |-> TRUE, when |-> 0, buf |-> NoTime, fired |-> FALSE]

\* time.After(d) called at time clock: a channel with a buffer of one that
\* receives the firing time once d has elapsed; at once if d <= 0
TimeAfter(d, clock) ==
  IF d <= 0
    THEN [nil |-> FALSE, when |-> clock, buf |-> clock, fired |-> TRUE]
    ELSE [nil |-> FALSE, when |-> clock + d, buf |-> NoTime, fired |-> FALSE]

\* the runtime's timer delivery when the clock reaches clock: a timer due
\* is delivered with the tick that reaches its time, and the value sent is
\* the time it was due
FireTimer(ch, clock) ==
  IF ~ch.nil /\ ~ch.fired /\ ch.when <= clock
    THEN [ch EXCEPT !.buf = ch.when, !.fired = TRUE]
    ELSE ch

\* ------------------------------------------------------- lines of output

\* the line one logging call writes
Record(id, level, ln) == [kind |-> "rec", id |-> id, level |-> level, ln |-> ln]
\* the stack dump Stop writes with PrintStack
StackDump == [kind |-> "stack", id |-> 0, level |-> 0, ln |-> FALSE]
\* an error reported by fmt.Fprintln(os.Stderr, err)
ErrLine == [kind |-> "err", id |-> 0, level |-> 0, ln |-> FALSE]

\* ------------------------------------------------- files and descriptors
(* The operators below work on a record w of the variables a write can     *)
(* change: segments, fds, files, dirs, stderr and segLog.                  *)

World == [segments |-> segments, fds |-> fds, files |-> files, dirs |-> dirs,
          stderr |-> stderr, segLog |-> segLog]

\* path.Join(logPath, name)
PathJoin(logPath, name) == [dir |-> logPath, stamp |-> name]

\* getLogFileName(t): the name is built from time.Now(), here clock, to the
\* minute; the argument t is not used
getLogFileName(t, clock) == clock \div Minute

\* os.OpenFile(name, O_WRONLY|O_CREATE|O_APPEND): the file is created empty
\* if it is absent and kept as it is otherwise
OpenFileAppend(w, name) ==
  [w EXCEPT !.files = IF name \in DOMAIN w.files THEN w.files
                      ELSE (name :> <<>>) @@ w.files,
            !.fds = Append(w.fds, [name |-> name, open |-> TRUE])]

\* os.Create(name): the file is created, or truncated if it exists
OsCreate(w, name) ==
  [w EXCEPT !.files = (name :> <<>>) @@ w.files,
            !.fds = Append(w.fds, [name |-> name, open |-> TRUE])]

\* a Close that leaves the file open
FileCloseNoop(w, fd) == w

\* (*os.File).Close
FileClose(w, fd) ==
  IF fd \in DOMAIN w.fds THEN [w EXCEPT !.fds[fd].open = FALSE] ELSE w

\* (*os.File).Write(p): p is added to the file; a closed file takes nothing
FileWrite(w, fd, p) ==
  IF fd = StderrFile THEN [w EXCEPT !.stderr = Append(w.stderr, p)]
  ELSE IF fd \in DOMAIN w.fds /\ w.fds[fd].open
    THEN [w EXCEPT !.files[w.fds[fd].name] = Append(@, p)]
  ELSE w

\* fmt.Fprintln(os.Stderr, err)
ReportError(w) == [w EXCEPT !.stderr = Append(w.stderr, ErrLine)]

\* ------------------------------------------------------------ logSegment

\* the deadline without the truncation to the unit
NextDeadlineNoTruncate(t, unit) == t + unit

\* next := now.Truncate(unit).Add(unit)
NextDeadline(t, unit) == Truncate(t, unit) + unit

\* the timer armed for every unit
FirstTimerAlways(unit, clock) ==
  TimeAfter(NextDeadline(clock, unit) - clock, clock)

\* the timer newLogSegment arms: only for time.Hour and time.Minute
FirstTimer(unit, clock) ==
  IF unit = Hour \/ unit = Minute
    THEN TimeAfter(NextDeadline(clock, unit) - clock, clock)
    ELSE NilChan

\* a segment made for the empty path as well
HasPathAlways(logPath) == TRUE

\* if logPath != ""
HasPath(logPath) == logPath # ""

\* the outcomes of the file system calls of newLogSegment
FsOutcomes == {"ok", "mkdir_fails", "open_fails", "open_notexist",
               "open_notexist_create_fails"}

\* newLogSegment(unit, logPath) at time clock with file system outcome fs:
\* [w, seg], seg the new segment or Nil
newLogSegment(w, unit, logPath, clock, fs) ==
  IF ~HasPath(logPath) THEN [w |-> w, seg |-> Nil]
  ELSE IF fs = "mkdir_fails" THEN [w |-> ReportError(w), seg |-> Nil]
  ELSE
    LET w1 == [w EXCEPT !.dirs = @ \cup {logPath}]
        name == PathJoin(logPath, getLogFileName(clock, clock))
    IN  IF fs \in {"open_fails", "open_notexist_create_fails"}
          THEN [w |-> ReportError(w1), seg |-> Nil]
          ELSE
            LET w2 == IF fs = "ok" THEN OpenFileAppend(w1, name)
                                   ELSE OsCreate(w1, name)
                fd == Len(w2.fds)
                ls == [unit |-> unit, logPath |-> logPath, logFile |-> fd,
                       timeToCreate |-> FirstTimer(unit, clock)]
                hist == [born |-> clock, first |-> fd, writes |-> 0,
                         rotations |-> 0, failed |-> FALSE,
                         made |-> <<fd>>, rotatedAt |-> NoTime]
            IN  [w |-> [w2 EXCEPT !.segments = Append(@, ls),
                                  !.segLog = Append(@, hist)],
                 seg |-> Len(w2.segments) + 1]

\* whether Write takes the rotation branch: the select receives a time
Rotates(ls) ==
  /\ ~ls.timeToCreate.nil
  /\ ls.logFile # StdoutFile
  /\ ls.logFile # StderrFile
  /\ ls.timeToCreate.buf # NoTime

\* the failed creation leaves the nil file of os.Create in ls.logFile
CreateFailedNoFallback(w, s) ==
  LET w2 == ReportError(w)
  IN  [w2 EXCEPT
         !.segments[s].logFile = Nil,
         !.segments[s].timeToCreate.buf = NoTime,
         !.segLog[s].rotations = @ + 1,
         !.segLog[s].failed = TRUE]

\* if err != nil: the error is reported and ls.logFile = os.Stderr; the
\* timer is not armed again
CreateFailed(w, s) ==
  LET w2 == ReportError(w)
  IN  [w2 EXCEPT
         !.segments[s].logFile = StderrFile,
         !.segments[s].timeToCreate.buf = NoTime,
         !.segLog[s].rotations = @ + 1,
         !.segLog[s].failed = TRUE]

\* the rotation of segment s at time clock; createOK: os.Create succeeds
Rotate(w, s, clock, createOK) ==
  LET ls == w.segments[s]
      current == ls.timeToCreate.buf
      w1 == FileClose(w, ls.logFile)
      name == PathJoin(ls.logPath, getLogFileName(current, clock))
  IN  IF createOK
        THEN LET w2 == OsCreate(w1, name)
                 next == NextDeadline(current, ls.unit)
             IN  [w2 EXCEPT
                    !.segments[s].logFile = Len(w2.fds),
                    !.segments[s].timeToCreate = TimeAfter(next - clock, clock),
                    !.segLog[s].rotations = @ + 1,
                    !.segLog[s].made = Append(@, Len(w2.fds)),
                    !.segLog[s].rotatedAt = clock]
        ELSE CreateFailed(w1, s)

\* (*logSegment).Write(p)
Write(w, s, p, clock, createOK) ==
  LET w1 == IF Rotates(w.segments[s]) THEN Rotate(w, s, clock, createOK) ELSE w
      w2 == FileWrite(w1, w1.segments[s].logFile, p)
  IN  [w2 EXCEPT !.segLog[s].writes = @ + 1]

\* (*logSegment).Close
Close(w, s) == FileClose(w, w.segments[s].logFile)

\* (*log.Logger).Printf / Println on logger k: one Write of the whole line to
\* the logger's output, under the logger's mutex
LoggerOutput(w, k, p, clock, createOK) ==
  IF loggers[k].out = Nil
    THEN FileWrite(w, StderrFile, p)
    ELSE Write(w, loggers[k].out, p, clock, createOK)

\* ----------------------------------------------------------- innerLogger

\* innerLogger{}: the zero value
innerLoggerZero ==
  [logger |-> Nil, level |-> DEBUG, segment |-> Nil, stopped |-> 0,
   logPath |-> "", unit |-> 0, isStdout |-> FALSE, printStack |-> FALSE]

\* the options of Start
DebugLevel(l) == [l EXCEPT !.level = DEBUG]
InfoLevel(l) == [l EXCEPT !.level = INFO]
WarnLevel(l) == [l EXCEPT !.level = WARN]
ErrorLevel(l) == [l EXCEPT !.level = ERROR]
FatalLevel(l) == [l EXCEPT !.level = FATAL]
LogFilePath(p, l) == [l EXCEPT !.logPath = p]
EveryHour(l) == [l EXCEPT !.unit = Hour]
EveryMinute(l) == [l EXCEPT !.unit = Minute]
AlsoStdout(l) == [l EXCEPT !.isStdout = TRUE]
PrintStack(l) == [l EXCEPT !.printStack = TRUE]

\* an option as a value: the function's name and, for LogFilePath, its path
Opt(f) == [f |-> f, p |-> ""]
PathOpt(p) == [f |-> "LogFilePath", p |-> p]

\* decorator(loggerInstance)
Decorate(d, l) ==
  CASE d.f = "DebugLevel" -> DebugLevel(l)
    [] d.f = "InfoLevel" -> InfoLevel(l)
    [] d.f = "WarnLevel" -> WarnLevel(l)
    [] d.f = "ErrorLevel" -> ErrorLevel(l)
    [] d.f = "FatalLevel" -> FatalLevel(l)
    [] d.f = "LogFilePath" -> LogFilePath(d.p, l)
    [] d.f = "EveryHour" -> EveryHour(l)
    [] d.f = "EveryMinute" -> EveryMinute(l)
    [] d.f = "AlsoStdout" -> AlsoStdout(l)
    [] d.f = "PrintStack" -> PrintStack(l)

RECURSIVE ApplyDecoratorsBackwards(_, _)
\* the decorators applied from the last to the first
ApplyDecoratorsBackwards(decorators, l) ==
  IF decorators = <<>> THEN l
  ELSE Decorate(Head(decorators),
                ApplyDecoratorsBackwards(Tail(decorators), l))

\* for _, decorator := range(decorators) { l = decorator(l) }
RECURSIVE ApplyDecorators(_, _)
ApplyDecorators(decorators, l) ==
  IF decorators = <<>> THEN l
  ELSE ApplyDecorators(Tail(decorators), Decorate(Head(decorators), l))

\* Start without the reset of loggerInstance
StartConfigKeep(decorators, prev) ==
  ApplyDecorators(decorators, [prev EXCEPT !.logger = Nil])

\* the configuration Start builds: the decorators applied to innerLogger{};
\* prev is the loggerInstance Start overwrites
StartConfig(decorators, prev) == ApplyDecorators(decorators, innerLoggerZero)

\* a compare-and-swap that succeeds whatever the value is
CompareAndSwapAlways(v, old) == TRUE

\* atomic.CompareAndSwapInt32(&v, old, new) succeeds
CompareAndSwap(v, old) == v = old

\* the value of started after Stop's atomic.StoreInt32(&started, 0)
StoreStarted(v) == 0

\* the level test with > for >=
LevelEnabledStrict(level, l) == level > l.level

\* if level >= l.level
LevelEnabled(level, l) == level >= l.level

\* no exit after a FATAL record
ExitsAfterNever(level) == FALSE

\* if level == FATAL { os.Exit(1) }
ExitsAfter(level) == level = FATAL

\* the echo made whatever the configuration says
EchoEnabledAlways(l) == TRUE

\* if l.isStdout
EchoEnabled(l) == l.isStdout

\* os.Exit taken before the echo
AfterSinkExitFirst(l, level) ==
  IF ExitsAfter(level) THEN "exit"
  ELSE IF EchoEnabled(l) THEN "echo" ELSE "idle"

\* where doPrintf / doPrintln goes on after l.logger.Printf: to the echo if
\* l.isStdout, else to os.Exit if the level is FATAL, else it returns
AfterSink(l, level) ==
  IF EchoEnabled(l) THEN "echo"
  ELSE IF ExitsAfter(level) THEN "exit" ELSE "idle"

\* ------------------------------------------------------------- actions

NoCall ==
  [op |-> "none", opts |-> <<>>, seg |-> Nil, l |-> innerLoggerZero,
   level |-> DEBUG, ln |-> FALSE, id |-> 0, gen |-> 0, active |-> FALSE,
   env |-> "ok"]
\* gen and active are history: the number of Start calls that had returned
\* when the call was made (for Stop: the handle), and whether the logger of
\* the latest of them had not been stopped; env is the outcome of the file
\* system calls the call has made

SetWorld(w) ==
  /\ segments' = w.segments
  /\ fds' = w.fds
  /\ files' = w.files
  /\ dirs' = w.dirs
  /\ stderr' = w.stderr
  /\ segLog' = w.segLog

worldVars == <<segments, fds, files, dirs, stderr, segLog>>
histVars == <<startOpts, stopCount, nCalls, panics>>

\* the Start calls that passed the compare-and-swap and have not returned
InStart == {t \in Threads : pc[t] \in {"start_build", "start_install"}}

\* Start, first step: the compare-and-swap on started; the panic if it fails
StartCAS(t, decorators) ==
  /\ ~exited
  /\ pc[t] = "idle"
  /\ IF CompareAndSwap(started, 0)
       THEN /\ Len(handles) + Cardinality(InStart) < MaxStarts
            /\ started' = 1
            /\ pc' = [pc EXCEPT ![t] = "start_build"]
            /\ call' = [call EXCEPT ![t] =
                          [NoCall EXCEPT !.op = "Start", !.opts = decorators]]
            /\ UNCHANGED panics
       ELSE /\ panics < MaxPanics
            /\ panics' = panics + 1
            /\ call' = [call EXCEPT ![t] =
                          [NoCall EXCEPT !.op = "StartPanic",
                                         !.opts = decorators]]
            /\ UNCHANGED <<started, pc>>
  /\ UNCHANGED <<loggerInstance, loggers, worldVars, console, now, exited,
                 handles, startOpts, stopCount, nCalls>>

\* Start, second step: loggerInstance is reset and decorated, and the
\* segment is made if a path is configured
StartBuild(t, fs) ==
  /\ ~exited
  /\ pc[t] = "start_build"
  /\ LET cfg == StartConfig(call[t].opts, loggerInstance)
         r == newLogSegment(World, cfg.unit, cfg.logPath, now, fs)
     IN  /\ loggerInstance' = cfg
         /\ SetWorld(r.w)
         /\ call' = [call EXCEPT ![t].seg = r.seg, ![t].env = fs]
  /\ pc' = [pc EXCEPT ![t] = "start_install"]
  /\ UNCHANGED <<started, loggers, console, now, exited, handles, histVars>>

\* Start, last step: log.New on the segment or on os.Stderr, the logger is
\* stored in loggerInstance, and loggerInstance is returned
StartInstall(t) ==
  /\ ~exited
  /\ pc[t] = "start_install"
  /\ loggers' = Append(loggers, [out |-> call[t].seg])
  /\ loggerInstance' = [loggerInstance EXCEPT !.logger = Len(loggers) + 1]
  /\ handles' = Append(handles, loggerInstance')
  /\ startOpts' = Append(startOpts, call[t].opts)
  /\ stopCount' = Append(stopCount, 0)
  /\ pc' = [pc EXCEPT ![t] = "idle"]
  /\ UNCHANGED <<started, worldVars, console, now, exited, call, nCalls,
                 panics>>

\* h.Stop() on the k-th handle returned by Start.  The receiver l is a copy
\* of the handle: the compare-and-swap on l.stopped and the assignments to
\* l.segment and l.logger change the copy, not the handle and not
\* loggerInstance.
Stop(t, k, createOK) ==
  /\ ~exited
  /\ pc[t] = "idle"
  /\ k \in DOMAIN handles
  /\ stopCount[k] < MaxStops
  /\ LET l == handles[k]
     IN  IF CompareAndSwap(l.stopped, 0)
           THEN LET w1 == IF l.printStack
                            THEN LoggerOutput(World, l.logger, StackDump, now,
                                              createOK)
                            ELSE World
                    w2 == IF l.segment # Nil THEN Close(w1, l.segment) ELSE w1
                IN  /\ SetWorld(w2)
                    /\ console' = IF l.printStack /\ l.isStdout
                                    THEN Append(console, StackDump)
                                    ELSE console
                    /\ started' = StoreStarted(started)
           ELSE UNCHANGED <<worldVars, console, started>>
  /\ stopCount' = [stopCount EXCEPT ![k] = @ + 1]
  /\ call' = [call EXCEPT ![t] = [NoCall EXCEPT !.op = "Stop", !.gen = k]]
  /\ UNCHANGED <<loggerInstance, loggers, now, exited, pc, handles, startOpts,
                 nCalls, panics>>

\* Debug .. Fatalln(level, ln): the receiver l of doPrintf / doPrintln is a
\* copy of loggerInstance; the call returns at once if l.logger is nil or
\* the level is below l.level
LogEnter(t, level, ln) ==
  /\ ~exited
  /\ pc[t] = "idle"
  /\ nCalls < MaxCalls
  /\ nCalls' = nCalls + 1
  /\ LET l == loggerInstance
     IN  /\ call' = [call EXCEPT ![t] =
                       [NoCall EXCEPT !.op = "log", !.l = l, !.level = level,
                          !.ln = ln, !.id = nCalls + 1, !.gen = Len(handles),
                          !.active = /\ Len(handles) > 0
                                     /\ stopCount[Len(handles)] = 0]]
         /\ pc' = [pc EXCEPT ![t] =
                     IF l.logger # Nil /\ LevelEnabled(level, l)
                       THEN "sink" ELSE "idle"]
  /\ UNCHANGED <<started, loggerInstance, loggers, worldVars, console, now,
                 exited, handles, startOpts, stopCount, panics>>

\* l.logger.Printf / Println: the line goes to the logger's output
LogSink(t, createOK) ==
  /\ ~exited
  /\ pc[t] = "sink"
  /\ LET c == call[t]
     IN  /\ SetWorld(LoggerOutput(World, c.l.logger,
                                  Record(c.id, c.level, c.ln), now, createOK))
         /\ pc' = [pc EXCEPT ![t] = AfterSink(c.l, c.level)]
  /\ UNCHANGED <<started, loggerInstance, loggers, console, now, exited, call,
                 handles, histVars>>

\* l.logger.Printf / Println when the Write of the output returns an error:
\* a segment rotates if its deadline has passed, no byte is written, and
\* Printf drops the error
LogSinkFails(t, createOK) ==
  /\ ~exited
  /\ pc[t] = "sink"
  /\ LET c == call[t]
         s == loggers[c.l.logger].out
     IN  /\ SetWorld(IF s # Nil /\ Rotates(segments[s])
                       THEN Rotate(World, s, now, createOK) ELSE World)
         /\ call' = [call EXCEPT ![t].env = "write_fails"]
         /\ pc' = [pc EXCEPT ![t] = AfterSink(c.l, c.level)]
  /\ UNCHANGED <<started, loggerInstance, loggers, console, now, exited,
                 handles, histVars>>

\* if l.isStdout { log.Printf / log.Println }: the standard logger
LogEcho(t) ==
  /\ ~exited
  /\ pc[t] = "echo"
  /\ LET c == call[t]
     IN  /\ console' = Append(console, Record(c.id, c.level, c.ln))
         /\ pc' = [pc EXCEPT ![t] =
                     IF ExitsAfter(c.level) THEN "exit" ELSE "idle"]
  /\ UNCHANGED <<started, loggerInstance, loggers, worldVars, now, exited,
                 call, handles, histVars>>

\* os.Exit(1)
LogExit(t) ==
  /\ ~exited
  /\ pc[t] = "exit"
  /\ exited' = TRUE
  /\ UNCHANGED <<started, loggerInstance, loggers, worldVars, console, now,
                 pc, call, handles, histVars>>

\* the clock advances by one tick and the runtime fires the timers due
Tick ==
  /\ ~exited
  /\ now < MaxTime
  /\ now' = now + 1
  /\ segments' = [s \in DOMAIN segments |->
                    [segments[s] EXCEPT
                       !.timeToCreate = FireTimer(@, now + 1)]]
  /\ UNCHANGED <<started, loggerInstance, loggers, fds, files, dirs, stderr,
                 segLog, console, exited, pc, call, handles, histVars>>

\* ------------------------------------------------------ specifications

\* the state of the package when the program starts
Init ==
  /\ started = 0
  /\ loggerInstance = innerLoggerZero
  /\ loggers = <<>>
  /\ segments = <<>>
  /\ fds = <<>>
  /\ files = <<>>
  /\ dirs = {}
  /\ stderr = <<>>
  /\ console = <<>>
  /\ now = 0
  /\ exited = FALSE
  /\ pc = [t \in Threads |-> "idle"]
  /\ call = [t \in Threads |-> NoCall]
  /\ handles = <<>>
  /\ startOpts = <<>>
  /\ stopCount = <<>>
  /\ segLog = <<>>
  /\ nCalls = 0
  /\ panics = 0

\* the k-th logger is active: its Start returned and Stop has not been
\* called on its handle
Active(k) == k \in DOMAIN handles /\ stopCount[k] = 0

\* The life cycle of the logger on one thread: Start with one of a few
\* option lists, Stop on any handle returned so far, and the ten logging
\* functions.  The file system calls succeed and the clock stands still.
LifeOptions ==
  { <<>>,
    <<Opt("WarnLevel"), PathOpt("./log")>>,
    <<Opt("PrintStack"), Opt("AlsoStdout")>> }

Next ==
  \/ \E d \in LifeOptions : StartCAS(1, d)
  \/ StartBuild(1, "ok")
  \/ StartInstall(1)
  \/ \E k \in 1..MaxStarts : Stop(1, k, TRUE)
  \/ \E level \in Levels, ln \in BOOLEAN : LogEnter(1, level, ln)
  \/ LogSink(1, TRUE)
  \/ LogEcho(1)
  \/ LogExit(1)

Spec == Init /\ [][Next]_vars

\* The level filter on one thread: one Start with a level option, alone or
\* with console echo and a file path, then the ten logging functions and
\* Stop.
LevelOptNames ==
  {"DebugLevel", "InfoLevel", "WarnLevel", "ErrorLevel", "FatalLevel"}

LevelOptions ==
  {<<Opt(f)>> : f \in LevelOptNames}
    \cup {<<Opt(f), Opt("AlsoStdout"), PathOpt("./log")>> : f \in LevelOptNames}

NextLevels ==
  \/ handles = <<>> /\ \E d \in LevelOptions : StartCAS(1, d)
  \/ StartBuild(1, "ok")
  \/ StartInstall(1)
  \/ Stop(1, 1, TRUE)
  \/ \E level \in Levels, ln \in BOOLEAN : LogEnter(1, level, ln)
  \/ LogSink(1, TRUE)
  \/ LogEcho(1)
  \/ LogExit(1)

SpecLevels == Init /\ [][NextLevels]_vars

\* Restarting on one thread: Start, one Stop on the handle of the latest
\* Start, Start again with other options, and logging calls in between.
RestartOptions ==
  { <<>>,
    <<Opt("WarnLevel"), PathOpt("./log")>>,
    <<Opt("InfoLevel"), PathOpt("./log2")>> }

NextRestart ==
  \/ \E d \in RestartOptions : StartCAS(1, d)
  \/ StartBuild(1, "ok")
  \/ StartInstall(1)
  \/ handles # <<>> /\ Active(Len(handles)) /\ Stop(1, Len(handles), TRUE)
  \/ \E level \in {INFO, WARN} : LogEnter(1, level, FALSE)
  \/ LogSink(1, TRUE)

SpecRestart == Init /\ [][NextRestart]_vars

\* The rotating writer on one thread: one Start with a file path and a
\* rotation unit (or none), then writes while the clock advances; the
\* os.Create of a rotation may fail.
RotateOptions ==
  { <<PathOpt("./log"), Opt("EveryMinute")>>,
    <<PathOpt("./log"), Opt("EveryHour")>>,
    <<PathOpt("./log")>> }

NextRotate ==
  \/ handles = <<>> /\ \E d \in RotateOptions : StartCAS(1, d)
  \/ StartBuild(1, "ok")
  \/ StartInstall(1)
  \/ LogEnter(1, INFO, FALSE)
  \/ \E createOK \in BOOLEAN : LogSink(1, createOK)
  \/ Tick

SpecRotate == Init /\ [][NextRotate]_vars

\* Start on a file system that may refuse the directory or the file: one
\* Start without a path or with one, then logging calls while the clock
\* advances.
FallbackOptions ==
  { <<>>,
    <<Opt("EveryMinute")>>,
    <<PathOpt("./log")>>,
    <<PathOpt("./log"), Opt("EveryMinute")>> }

NextFallback ==
  \/ handles = <<>> /\ \E d \in FallbackOptions : StartCAS(1, d)
  \/ \E fs \in FsOutcomes : StartBuild(1, fs)
  \/ StartInstall(1)
  \/ \E ln \in BOOLEAN : LogEnter(1, INFO, ln)
  \/ LogSink(1, TRUE)
  \/ Tick

SpecFallback == Init /\ [][NextFallback]_vars

\* Concurrent Start: every thread calls Start, with options of its choice,
\* while no logger is active and while another Start is under way; no
\* Stop is called.
RaceOptions ==
  { <<Opt("WarnLevel")>>,
    <<Opt("ErrorLevel"), Opt("AlsoStdout")>>,
    <<PathOpt("./log"), Opt("EveryMinute"), Opt("PrintStack")>> }

NextRace ==
  \/ \E t \in Threads, d \in RaceOptions : StartCAS(t, d)
  \/ \E t \in Threads, fs \in FsOutcomes : StartBuild(t, fs)
  \/ \E t \in Threads : StartInstall(t)

SpecRace == Init /\ [][NextRace]_vars

\* Fatal calls: one Start, then Error and Fatal calls on the active logger,
\* whose write to the sink may fail.  The thread that makes a call goes on
\* with it, which is the fairness condition.
FatalOptions ==
  { <<>>,
    <<Opt("AlsoStdout")>>,
    <<PathOpt("./log")>>,
    <<PathOpt("./log"), Opt("AlsoStdout")>>,
    <<Opt("FatalLevel"), Opt("AlsoStdout")>> }

NextFatal ==
  \/ handles = <<>> /\ \E d \in FatalOptions : StartCAS(1, d)
  \/ StartBuild(1, "ok")
  \/ StartInstall(1)
  \/ \E level \in {ERROR, FATAL}, ln \in BOOLEAN :
       handles # <<>> /\ LogEnter(1, level, ln)
  \/ LogSink(1, TRUE)
  \/ LogSinkFails(1, TRUE)
  \/ LogEcho(1)
  \/ LogExit(1)

CallGoesOn ==
  LogSink(1, TRUE) \/ LogSinkFails(1, TRUE) \/ LogEcho(1) \/ LogExit(1)

SpecFatal == Init /\ [][NextFatal]_vars /\ WF_vars(CallGoesOn)

\* The options of Start: every list of up to MaxOptions options, for a
\* first Start and, after Stop on its handle, for a second one; Start is
\* called while no logger is active.
OptionChoices ==
  { Opt("WarnLevel"), Opt("ErrorLevel"), Opt("EveryHour"), Opt("EveryMinute"),
    PathOpt("./log"), PathOpt("./log2"), Opt("AlsoStdout"),
    Opt("PrintStack") }

OptionLists == UNION {[1..n -> OptionChoices] : n \in 0..MaxOptions}

NextOptions ==
  \/ \E d \in OptionLists : started = 0 /\ StartCAS(1, d)
  \/ StartBuild(1, "ok")
  \/ StartInstall(1)
  \/ Len(handles) = 1 /\ Active(1) /\ Stop(1, 1, TRUE)

SpecOptions == Init /\ [][NextOptions]_vars

\* Concurrent writers: one file-backed logger rotating every minute, every
\* thread making logging calls against it while the clock advances; every
\* file system call succeeds.
ConcOptions == { <<PathOpt("./log"), Opt("EveryMinute")>> }

NextConc ==
  \/ handles = <<>> /\ \E d \in ConcOptions : StartCAS(1, d)
  \/ StartBuild(1, "ok")
  \/ StartInstall(1)
  \/ \E t \in Threads : Len(handles) = 1 /\ LogEnter(t, INFO, FALSE)
  \/ \E t \in Threads : LogSink(t, TRUE)
  \/ Tick

SpecConc == Init /\ [][NextConc]_vars

\* ------------------------------------------------------------- claims


\* this step is a call of Start: its compare-and-swap succeeds or it panics
StartCalled ==
  \/ panics' = panics + 1
  \/ \E t \in Threads : pc[t] = "idle" /\ pc'[t] = "start_build"

\* this step is a step of a logging call of thread t: the call is made, or
\* it goes on to its write, its echo or os.Exit
StepOfCall(t) ==
  /\ call'[t].op = "log"
  /\ \/ call'[t] # call[t]
     \/ pc'[t] # pc[t]
     \/ pc[t] = "exit" /\ exited' # exited

\* the file the segment of logger k writes to is open
SegmentOpen(k) ==
  /\ loggers[k].out # Nil
  /\ LET fd == segments[loggers[k].out].logFile
     IN  fd \in DOMAIN fds /\ fds[fd].open

\* C1: a call of Start made while a logger is active panics and leaves the
\* active logger's configuration, its sink and the started flag unchanged.
C1_StartWhileActivePanics ==
  [][(StartCalled /\ \E k \in DOMAIN handles : Active(k))
       => /\ panics' = panics + 1
          /\ UNCHANGED <<started, loggerInstance, loggers, segments, fds,
                         files>>]_vars

\* C2: the second and every later Stop on a handle writes no stack dump,
\* closes no file handle and does not change the started flag.
C2_SecondStopIsNoOp ==
  [][\A k \in DOMAIN stopCount :
       (stopCount[k] >= 1 /\ k \in DOMAIN stopCount'
          /\ stopCount'[k] = stopCount[k] + 1)
         => UNCHANGED <<started, stderr, console, files, fds>>]_vars

\* C3: a logging call made while no logger is active (before the first
\* Start, or after Stop on the handle of the latest Start) writes nothing
\* to a file, to standard error or to the console and changes no state.
C3_NoActiveLoggerNoOutput ==
  [][\A t \in Threads :
       (StepOfCall(t) /\ ~call'[t].active)
         => UNCHANGED <<files, stderr, console, fds, segments, started,
                        loggerInstance, exited>>]_vars

\* C6: at most one logger is active at any time.
C6_AtMostOneActive ==
  Cardinality({k \in DOMAIN handles : Active(k)}) <= 1

\* C8: once Stop was called on the handle of a logger with a rotating
\* writer, the writer's file handle is not open.
C8_StopClosesWriter ==
  \A k \in DOMAIN handles :
    (stopCount[k] >= 1 /\ loggers[k].out # Nil) => ~SegmentOpen(k)

\* the elements of a sequence
Range(seq) == {seq[i] : i \in DOMAIN seq}

\* the number of places of a sequence that hold x
Occurrences(seq, x) == Cardinality({i \in DOMAIN seq : seq[i] = x})

RECURSIVE SumOver(_, _)
\* the sum of f[x] over the set S
SumOver(S, f) ==
  IF S = {} THEN 0
  ELSE LET x == CHOOSE y \in S : TRUE IN f[x] + SumOver(S \ {x}, f)

\* the line of the logging call c
LineOf(c) == Record(c.id, c.level, c.ln)

\* the line of call c is in some file, or on standard error
Written(c) ==
  \/ LineOf(c) \in Range(stderr)
  \/ \E n \in DOMAIN files : LineOf(c) \in Range(files[n])

\* the minimum level a list of options asks for: the level of its last
\* level option, DEBUG without one
LevelOfOpt(f) ==
  CASE f = "DebugLevel" -> DEBUG
    [] f = "InfoLevel" -> INFO
    [] f = "WarnLevel" -> WARN
    [] f = "ErrorLevel" -> ERROR
    [] f = "FatalLevel" -> FATAL

ExpectedLevel(opts) ==
  LET idx == {i \in DOMAIN opts : opts[i].f \in LevelOptNames}
  IN  IF idx = {} THEN DEBUG
      ELSE LevelOfOpt(opts[CHOOSE i \in idx : \A j \in idx : j <= i].f)

\* the directory a list of options asks for: the path of its last
\* LogFilePath option, "" without one
ExpectedPath(opts) ==
  LET idx == {i \in DOMAIN opts : opts[i].f = "LogFilePath"}
  IN  IF idx = {} THEN ""
      ELSE opts[CHOOSE i \in idx : \A j \in idx : j <= i].p

\* C4: the files of a writer whose file creations all succeed hold one line
\* for every write made through it, and the line of every finished call
\* exactly once.
C4_NoLostWrites ==
  \A s \in DOMAIN segments :
    ~segLog[s].failed =>
      LET mine == {n \in DOMAIN files : n.dir = segments[s].logPath}
          len == [n \in mine |-> Len(files[n])]
      IN  /\ SumOver(mine, len) = segLog[s].writes
          /\ \A t \in Threads :
               (call[t].op = "log" /\ call[t].l.logger # Nil /\ pc[t] = "idle")
                 => SumOver(mine, [n \in mine |->
                                     Occurrences(files[n], LineOf(call[t]))]) = 1

\* C7: a logging call at level L on the active logger writes its record if
\* and only if L is at least the minimum level M the options of Start set.
C7_LevelFilter ==
  \A t \in Threads :
    (call[t].op = "log" /\ call[t].active /\ pc[t] # "sink")
      => (Written(call[t])
            <=> call[t].level >= ExpectedLevel(startOpts[call[t].gen]))

C7_Witness ==
  /\ nCalls = 2
  /\ Len(stderr) = 1
  /\ stderr[1].id = 1
  /\ call[1].op = "log" /\ call[1].active /\ pc[1] = "idle"
  /\ call[1].level = INFO
  /\ ExpectedLevel(startOpts[call[1].gen]) = WARN
  /\ ~Written(call[1])

\* the line of call c is in the sink the options opts ask for and nowhere
\* else: on standard error without a path, in a file of the directory
\* otherwise
InSinkOnly(c, opts) ==
  IF ExpectedPath(opts) = ""
    THEN /\ Occurrences(stderr, LineOf(c)) = 1
         /\ \A n \in DOMAIN files : LineOf(c) \notin Range(files[n])
    ELSE /\ LineOf(c) \notin Range(stderr)
         /\ \E n \in DOMAIN files :
              /\ n.dir = ExpectedPath(opts)
              /\ Occurrences(files[n], LineOf(c)) = 1
              /\ \A m \in DOMAIN files \ {n} : LineOf(c) \notin Range(files[m])

\* C9: after Stop on the handle of the latest Start the next Start does not
\* panic, and every logging call made after a Start returned is filtered by
\* the level of that Start's options and written to its sink only.
C9_RestartTakesOver ==
  /\ [][(/\ StartCalled
         /\ handles # <<>>
         /\ stopCount[Len(handles)] >= 1
         /\ InStart = {}) => panics' = panics]_vars
  /\ [](\A t \in Threads :
          (call[t].op = "log" /\ call[t].gen >= 1 /\ pc[t] # "sink")
            => LET opts == startOpts[call[t].gen]
               IN  IF call[t].level >= ExpectedLevel(opts)
                     THEN InSinkOnly(call[t], opts)
                     ELSE ~Written(call[t]))

C9_Witness ==
  /\ Len(handles) = 2
  /\ stopCount[1] = 1
  /\ ExpectedPath(startOpts[1]) = "./log"
  /\ ExpectedPath(startOpts[2]) = "./log2"
  /\ nCalls = 2
  /\ call[1].op = "log" /\ call[1].gen = 2 /\ pc[1] = "idle"
  /\ call[1].level = INFO
  /\ InSinkOnly(call[1], startOpts[2])
  /\ \E n \in DOMAIN files : n.dir = "./log" /\ Len(files[n]) = 0

\* C10 as stated: no call of Fatal or Fatalln returns to its caller, with
\* or without an active logger.
C10_FatalAlwaysExits ==
  [][\A t \in Threads :
       (StepOfCall(t) /\ call'[t].level = FATAL)
         => /\ pc'[t] # "idle"
            /\ pc[t] = "exit" => exited']_vars

\* C10, amended: a call of Fatal or Fatalln made while a logger is active
\* does not return and ends in os.Exit, whatever the minimum level; a call
\* made before the first Start returns without exiting.
C10_FatalExitsWhenActive ==
  [][\A t \in Threads :
       (StepOfCall(t) /\ call'[t].level = FATAL)
         => /\ call'[t].active
                 => /\ pc'[t] # "idle"
                    /\ pc[t] = "exit" => exited'
            /\ (call'[t].gen = 0 /\ InStart = {})
                 => pc'[t] = "idle" /\ ~exited']_vars

C10_Witness ==
  /\ exited
  /\ call[1].op = "log" /\ call[1].level = FATAL /\ call[1].active
  /\ call[1].l.level = FATAL
  /\ call[1].l.isStdout

\* the segment thread t writes to in this step, Nil if the step is not the
\* write of a logging call to a segment
SinkSegment(t) ==
  IF pc[t] = "sink" /\ pc'[t] # "sink" THEN loggers[call[t].l.logger].out
  ELSE Nil

\* the first deadline of segment s: its creation time truncated to the
\* unit, plus one unit
FirstDeadline(s) ==
  LET born == segLog[s].born
      unit == segments[s].unit
  IN  (born - (born % unit)) + unit

\* the write of thread t goes to the file segment s opened at construction
LandsInFirstFile(t, s) ==
  LET first == segLog[s].first
      name == fds[first].name
  IN  /\ segments'[s].logFile = first
      /\ fds' = fds
      /\ fds[first].open
      /\ files' = [files EXCEPT ![name] = Append(@, LineOf(call[t]))]
      /\ stderr' = stderr

\* the write of thread t closes the first file of segment s, creates a new
\* file and is the only line of the new file
LandsInNewFile(t, s) ==
  LET first == segLog[s].first
      name == fds[first].name
      new == Len(fds) + 1
  IN  /\ Len(fds') = new
      /\ ~fds'[first].open
      /\ fds'[new].open
      /\ fds'[new].name # name
      /\ fds'[new].name \notin DOMAIN files
      /\ segments'[s].logFile = new
      /\ files'[fds'[new].name] = <<LineOf(call[t])>>
      /\ files'[name] = files[name]
      /\ stderr' = stderr

\* the write of thread t closes the first file of segment s, reports the
\* failed creation and goes to standard error
LandsOnStderr(t, s) ==
  LET first == segLog[s].first
  IN  /\ Len(fds') = Len(fds)
      /\ ~fds'[first].open
      /\ segments'[s].logFile = StderrFile
      /\ files' = files
      /\ stderr' = stderr \o <<ErrLine, LineOf(call[t])>>

\* a write of thread t to a segment with a unit that has not rotated yet
FirstPeriodWrite(t) ==
  /\ SinkSegment(t) # Nil
  /\ segments[SinkSegment(t)].unit \in {Minute, Hour}
  /\ segLog[SinkSegment(t)].rotations = 0

\* C5 as stated: with a unit of a minute or an hour, every write before the
\* first deadline goes to the file opened at construction, and the first
\* write after it closes that file and lands in a new file.
C5_RotatesAtDeadline ==
  [][\A t \in Threads :
       FirstPeriodWrite(t)
         => LET s == SinkSegment(t)
            IN  IF now < FirstDeadline(s)
                  THEN LandsInFirstFile(t, s)
                  ELSE LandsInNewFile(t, s)]_vars

\* C5, amended: as stated, but when the creation of the new file fails the
\* first write after the deadline closes the old file, reports the error
\* and goes to standard error.
C5_RotatesOrFallsBack ==
  [][\A t \in Threads :
       FirstPeriodWrite(t)
         => LET s == SinkSegment(t)
            IN  IF now < FirstDeadline(s)
                  THEN LandsInFirstFile(t, s)
                  ELSE \/ LandsInNewFile(t, s)
                       \/ LandsOnStderr(t, s)]_vars

C5_Witness ==
  \E s \in DOMAIN segments :
    /\ segments[s].unit = Hour
    /\ segLog[s].born % Hour # 0
    /\ segLog[s].writes = 2
    /\ segLog[s].rotations = 1
    /\ ~segLog[s].failed
    /\ Len(files[fds[segLog[s].first].name]) = 1
    /\ Len(files[fds[segments[s].logFile].name]) = 1

\* the records in the sinks: the lines of logging calls on standard error
\* and in the files
SinkRecords ==
  {ln \in Range(stderr) : ln.kind = "rec"}
    \cup UNION {Range(files[n]) : n \in DOMAIN files}

\* the logging calls that have written to the sink and not yet echoed
EchoPending == {t \in Threads : pc[t] = "echo"}

FallbackWrite(t) ==
  /\ SinkSegment(t) # Nil
  /\ segLog'[SinkSegment(t)].failed

\* C12: the write whose rotation fails to create the new file, and every
\* later write of the writer, puts its line on standard error and in no
\* file; after the failure the writer creates no file, closes none and
\* does not rotate.
C12_FailedCreateFallsBack ==
  [][\A t \in Threads :
       FallbackWrite(t)
         => LET s == SinkSegment(t)
            IN  /\ files' = files
                /\ segLog'[s].writes = segLog[s].writes + 1
                /\ segments'[s].logFile = StderrFile
                /\ IF segLog[s].failed
                     THEN /\ stderr' = Append(stderr, LineOf(call[t]))
                          /\ fds' = fds
                          /\ segments'[s] = segments[s]
                          /\ segLog'[s].rotations = segLog[s].rotations
                     ELSE /\ stderr' = stderr \o <<ErrLine, LineOf(call[t])>>
                          /\ Len(fds') = Len(fds)]_vars

\* two writes have gone to standard error after a failed creation, the
\* second after a further deadline of the unit has passed
C12_Witness ==
  \E s \in DOMAIN segments :
    /\ segLog[s].failed
    /\ segments[s].unit = Minute
    /\ stderr = <<ErrLine, Record(1, INFO, FALSE), Record(2, INFO, FALSE)>>
    /\ now >= FirstDeadline(s) + Minute
    /\ \A t \in Threads : pc[t] = "idle"

\* the outcomes of the file system calls of newLogSegment in which the
\* directory or the file cannot be created
FsFailures == {"mkdir_fails", "open_fails", "open_notexist_create_fails"}

\* the Start of thread t has no file path, or its directory or file could
\* not be created
NoFileForStart(t) ==
  /\ call[t].op = "Start"
  /\ \/ ExpectedPath(call[t].opts) = ""
     \/ call[t].env \in FsFailures

ExpectedUnit(opts) ==
  LET idx == {i \in DOMAIN opts : opts[i].f \in {"EveryHour", "EveryMinute"}}
  IN  IF idx = {} THEN 0
      ELSE IF opts[CHOOSE i \in idx : \A j \in idx : j <= i].f = "EveryHour"
        THEN Hour ELSE Minute

\* the list of options holds option f
HasOpt(opts, f) == \E i \in DOMAIN opts : opts[i].f = f

\* the configuration l is the one the list of options asks for, on top of
\* the default configuration
ConfigMatches(l, opts) ==
  /\ l.level = ExpectedLevel(opts)
  /\ l.logPath = ExpectedPath(opts)
  /\ l.unit = ExpectedUnit(opts)
  /\ l.isStdout = HasOpt(opts, "AlsoStdout")
  /\ l.printStack = HasOpt(opts, "PrintStack")
  /\ l.stopped = 0
  /\ l.segment = Nil

\* the threads whose latest call of Start passed the compare-and-swap, and
\* those whose latest call panicked
Winners == {t \in Threads : call[t].op = "Start"}
Panicked == {t \in Threads : call[t].op = "StartPanic"}

\* C14: of the calls of Start made by several threads while no logger is
\* active, one passes and returns a handle and every other one panics; the
\* handle and loggerInstance hold the configuration built from the options
\* of the call that passed.
C14_OneStartWins ==
  /\ Len(handles) + Cardinality(InStart) <= 1
  /\ Cardinality(Winners) <= 1
  /\ Winners \cup Panicked # {} => Len(handles) + Cardinality(InStart) = 1
  /\ \A t \in Winners :
       /\ pc[t] \in {"start_install", "idle"}
            => ConfigMatches(loggerInstance, call[t].opts)
       /\ pc[t] = "idle"
            => /\ Len(handles) = 1
               /\ startOpts[1] = call[t].opts
               /\ ConfigMatches(handles[1], call[t].opts)
               /\ loggerInstance = handles[1]
               /\ handles[1].logger = 1

\* thread 2 has won and returned, thread 1 has panicked with other options
C14_Witness ==
  /\ Winners = {2}
  /\ Panicked = {1}
  /\ pc[2] = "idle"
  /\ Len(handles) = 1
  /\ call[1].opts # call[2].opts
  /\ panics = 1

\* the sequence a is a prefix of the sequence b
IsPrefix(a, b) == Len(a) <= Len(b) /\ \A i \in DOMAIN a : a[i] = b[i]

\* the files made by segment s have pairwise distinct names
DistinctNames(s) ==
  LET made == segLog[s].made
  IN  \A i, j \in DOMAIN made :
        i # j => fds[made[i]].name # fds[made[j]].name

\* C15: the files a writer makes over its lifetime have pairwise distinct
\* names, and every line written to a file stays in it: no step removes a
\* line from a file.
C15_FilesKeepTheirRecords ==
  /\ [](\A s \in DOMAIN segments : DistinctNames(s))
  /\ [][\A n \in DOMAIN files :
          n \in DOMAIN files' /\ IsPrefix(files[n], files'[n])]_vars

\* the write of thread t to segment s rotates and creates the new file
RotatesOK(t, s) ==
  /\ segLog'[s].rotations = segLog[s].rotations + 1
  /\ ~segLog'[s].failed

\* C16: a successful rotation sets the next deadline one unit after the
\* unit boundary of the deadline it received, and a write made in the unit
\* period in which the writer's last rotation was made does not rotate.
C16_OneRotationPerDeadline ==
  [][\A t \in Threads :
       SinkSegment(t) # Nil
         => LET s == SinkSegment(t)
                unit == segments[s].unit
                current == segments[s].timeToCreate.buf
                next == (current - (current % unit)) + unit
                timer == segments'[s].timeToCreate
            IN  /\ RotatesOK(t, s)
                     => /\ ~timer.nil
                        /\ IF next > now
                             THEN timer.when = next /\ timer.buf = NoTime
                             ELSE timer.buf # NoTime
                /\ (/\ segLog[s].rotatedAt # NoTime
                    /\ Truncate(segLog[s].rotatedAt, unit)
                         = Truncate(now, unit))
                     => segLog'[s].rotations = segLog[s].rotations]_vars

\* thread t is in a Fatal or Fatalln call made on the active logger
InFatal(t) ==
  /\ call[t].op = "log"
  /\ call[t].level = FATAL
  /\ call[t].active
  /\ pc[t] # "idle"

\* C17: a Fatal or Fatalln call on the active logger reaches os.Exit only
\* after its record is in the sink (unless the write to the sink failed)
\* and, with AlsoStdout, on the console; the process exits only from
\* there; and the call always ends in the exit of the process, also when
\* the write to the sink fails.
C17_FatalWritesThenExits ==
  /\ [](\A t \in Threads :
          (InFatal(t) /\ pc[t] = "exit")
            => /\ call[t].env = "write_fails" \/ Written(call[t])
               /\ call[t].l.isStdout
                    => Occurrences(console, LineOf(call[t])) = 1)
  /\ [][\A t \in Threads :
          /\ (pc[t] = "idle" /\ call'[t] # call[t] /\ call'[t].op = "log"
                 /\ call'[t].level = FATAL /\ call'[t].active)
               => pc'[t] = "sink"
          /\ (InFatal(t) /\ pc'[t] # pc[t])
               => pc'[t] \in {"echo", "exit"}]_vars
  /\ [][exited' # exited => \E t \in Threads : pc[t] = "exit"]_vars
  /\ \A t \in Threads : InFatal(t) ~> exited

\* the process has exited from a Fatal call whose record is in the file
\* and on the console
C17_Witness ==
  /\ exited
  /\ InFatal(1)
  /\ call[1].l.isStdout
  /\ call[1].env = "ok"
  /\ \E n \in DOMAIN files : LineOf(call[1]) \in Range(files[n])
  /\ LineOf(call[1]) \in Range(console)

\* the file handles made by segment s that are open
OpenHandles(s) ==
  {i \in DOMAIN segLog[s].made : fds[segLog[s].made[i]].open}

\* C18: a rotating writer holds at most one open file handle in every
\* state; a rotation leaves the old handle closed, and the new handle, if
\* the file was created, is the only open one and the writer's file.
C18_OneOpenHandle ==
  /\ [](\A s \in DOMAIN segments :
          /\ Cardinality(OpenHandles(s)) <= 1
          /\ \A i \in OpenHandles(s) :
               segments[s].logFile = segLog[s].made[i])
  /\ [][\A s \in DOMAIN segments :
          (s \in DOMAIN segments'
             /\ segLog'[s].rotations = segLog[s].rotations + 1)
            => /\ ~fds'[segments[s].logFile].open
               /\ segments'[s].logFile # segments[s].logFile]_vars

\* the writer has rotated twice and holds one open handle, its third
C18_Witness ==
  \E s \in DOMAIN segments :
    /\ segLog[s].rotations = 2
    /\ ~segLog[s].failed
    /\ OpenHandles(s) = {3}
    /\ segLog[s].writes = 2

\* segment s was made without EveryMinute and without EveryHour
NoUnit(s) == segments[s].unit \notin {Minute, Hour}

\* C19: a writer made without EveryMinute or EveryHour has no timer and
\* never rotates: every write goes to the file opened at construction,
\* whatever the time of the write.
C19_NoUnitNoRotation ==
  /\ [](\A s \in DOMAIN segments :
          NoUnit(s) => /\ segLog[s].rotations = 0
                       /\ segments[s].timeToCreate.nil
                       /\ segments[s].logFile = segLog[s].first
                       /\ segLog[s].made = <<segLog[s].first>>)
  /\ [][\A t \in Threads :
          (SinkSegment(t) # Nil /\ NoUnit(SinkSegment(t)))
            => LandsInFirstFile(t, SinkSegment(t))]_vars

\* a writer without a unit has written before and after the first hour
\* has passed, both lines into its first file
C19_Witness ==
  \E s \in DOMAIN segments :
    /\ NoUnit(s)
    /\ now >= segLog[s].born + Hour
    /\ files[fds[segLog[s].first].name]
         = <<Record(1, INFO, FALSE), Record(2, INFO, FALSE)>>
    /\ segLog[s].writes = 2

\* C20: the configuration Start builds and returns is the default
\* configuration (DEBUG, no path, no unit, no echo, no stack dump) changed
\* by its options from left to right: the last level option, the last path
\* and the last rotation option win, and nothing of the logger of an
\* earlier Start is left in it.
C20_OptionsOnDefaults ==
  /\ \A k \in DOMAIN handles :
       /\ ConfigMatches(handles[k], startOpts[k])
       /\ handles[k].logger = k
  /\ \A t \in Threads :
       pc[t] = "start_install" => ConfigMatches(loggerInstance, call[t].opts)
  /\ (handles # <<>> /\ InStart = {})
       => loggerInstance = handles[Len(handles)]

\* a second Start with two rotation options, after a first one with a
\* level, a path, the echo and the stack dump configured
C20_Witness ==
  /\ Len(handles) = 2
  /\ startOpts[1] = <<Opt("ErrorLevel"), PathOpt("./log")>>
  /\ startOpts[2] = <<Opt("EveryHour"), Opt("EveryMinute")>>
  /\ handles[2].unit = Minute
  /\ handles[2].level = DEBUG
  /\ handles[2].logPath = ""

====
